---- MODULE Spec2Model ----
(***************************************************************************)
(* PeerHealthTracker (exo/networking/peer_health_tracker.py): a per-peer   *)
(* circuit breaker.  failure_counts and unhealthy_until are Python dicts,  *)
(* modelled as functions whose DOMAIN is the set of keys present.          *)
(* time.time() is the variable now.                                        *)
(*                                                                         *)
(* Times are Python floats (IEEE-754 doubles).  The model looks at the     *)
(* clock through a window around a power of two, where the spacing of the  *)
(* doubles changes: a time x of the model is the double                    *)
(*     2^31 - 2 * 2^-22 + x * 2^-22   seconds,                             *)
(* a duration d is the double d * 2^-22 seconds.  Below Binade (the time   *)
(* 2^31 s) every tick of 2^-22 s is a double, from Binade on only every    *)
(* second one; a sum that falls between two doubles is rounded to the      *)
(* nearer one, a tie to the one with the even mantissa.                    *)
(***************************************************************************)
EXTENDS Integers, FiniteSets, Sequences, TLC

\* ------------------------------------------------------------------ bounds
MaxThreshold == 3
MaxCooldown == 2
MaxTime == 3
NumThreads == 2
MaxCalls == 2

Threads == 1..NumThreads

\* ------------------------------------------------------------------ floats
\* the first time of the window at which the doubles are two ticks apart
Binade == 2

\* x is a double
Representable(x) == x < Binade \/ (x - Binade) % 2 = 0

\* the double nearest to x, ties to the even mantissa
float(x) ==
    IF Representable(x) THEN x
    ELSE IF ((x - 1 - Binade) \div 2) % 2 = 0 THEN x - 1 ELSE x + 1

\* a + b as Python computes it (line 44)
float_add(a, b) == float(a + b)

\* the clock's next value: time.time() returns doubles only
next_time(t) == IF Representable(t + 1) THEN t + 1 ELSE t + 2

\* peer_id values used by the callers (the empty string is a valid key)
Peers == {"", "p1"}
NoPeer == "<none>"
\* encoding of Python's None as returned by get_cooldown_remaining
NoneValue == 0 - 1
\* marker of a history variable that is not tracking anything
Off == 0 - 1

VARIABLES
    failure_counts,     \* self.failure_counts   : peer_id -> int
    unhealthy_until,    \* self.unhealthy_until  : peer_id -> deadline
    failure_threshold,  \* self.failure_threshold
    cooldown_period,    \* self.cooldown_period
    now,                \* the value time.time() returns
    real,               \* the time that has really elapsed
    lastCall,           \* the last call made and what it returned
    watched,            \* the peer whose history the next six record
    initial_failures,   \* its record_failure calls since never seen
    scen,               \* its position in the run  F^(N-1) S F^(N-1)
    last_trip,          \* time of its latest trip
    closed_trip,        \* time of its latest CLOSED -> OPEN trip
    late_failure,       \* a record_failure on it came after the cooldown
                        \*   that closed_trip started had elapsed
    since_recovery,     \* its record_failure calls since its recovery
    tripped_real,       \* real time of its latest trip
    quiet_since_trip,   \* no record_failure on it since its latest trip
    quiet_recovery,     \* its recovery came with no record_failure on it
                        \*   between the trip and the recovery
    pc,                 \* per thread: the statement it is about to execute
    arg,                \* per thread: the peer_id argument of its call
    tmp,                \* per thread: the value it holds on its stack
    calls,              \* per thread: number of calls it has started
    issued              \* per peer: calls started by the threads, and the
                        \*   deadline a trip stored while another thread
                        \*   stood between lines 73 and 75 for that peer

tracker == <<failure_counts, unhealthy_until>>
config == <<failure_threshold, cooldown_period, watched>>
history == <<initial_failures, scen, last_trip, closed_trip, late_failure,
             since_recovery, tripped_real, quiet_since_trip, quiet_recovery>>
vars == <<failure_counts, unhealthy_until, failure_threshold, cooldown_period,
          now, real, lastCall, watched, initial_failures, scen, last_trip,
          closed_trip, late_failure, since_recovery, tripped_real,
          quiet_since_trip, quiet_recovery, pc, arg, tmp, calls, issued>>
threads == <<pc, arg, tmp, calls, issued>>
observed == <<lastCall, history>>

\* ------------------------------------------------------------ dict helpers
\* d[k] = v
Put(d, k, v) == [x \in (DOMAIN d) \cup {k} |-> IF x = k THEN v ELSE d[x]]
\* del d[k]
Del(d, k) == [x \in (DOMAIN d) \ {k} |-> d[x]]
\* the empty dict {}
EmptyDict == [x \in {} |-> 0]

\* ---------------------------------------------------------- record_failure
\* lines 36-39: lazy insert at 0, then += 1
incremented(fc, p) == (IF p \in DOMAIN fc THEN fc[p] ELSE 0) + 1

\* a threshold test that needs one failure more
trips_strictly_above(fc, p, thr) == incremented(fc, p) > thr

\* line 41: the threshold test
trips(fc, p, thr) == incremented(fc, p) >= thr

\* a trip that forgets line 45
failure_counts_after_failure_no_reset(fc, p, thr) ==
    Put(fc, p, incremented(fc, p))

\* a trip that counts the tripping failure into the next run
failure_counts_after_failure_reset_to_one(fc, p, thr) ==
    Put(fc, p, IF trips(fc, p, thr) THEN 1 ELSE incremented(fc, p))

\* failure_counts after record_failure(p)
failure_counts_after_failure(fc, p, thr) ==
    Put(fc, p, IF trips(fc, p, thr) THEN 0 ELSE incremented(fc, p))

\* a trip that opens the breaker of every peer on record
unhealthy_after_failure_all(fc, uu, p, thr, t, cd) ==
    IF trips(fc, p, thr)
    THEN [x \in (DOMAIN uu) \cup (DOMAIN fc) \cup {p} |-> float_add(t, cd)]
    ELSE uu

\* unhealthy_until after record_failure(p) at time t
unhealthy_after_failure(fc, uu, p, thr, t, cd) ==
    IF trips(fc, p, thr) THEN Put(uu, p, float_add(t, cd)) ELSE uu

\* ---------------------------------------------------------- record_success
\* a record_success that forgets line 57
failure_counts_after_success_kept(fc, p) == fc

\* a record_success that creates the record of a never-seen peer
failure_counts_after_success_created(fc, p) == Put(fc, p, 0)

\* a record_success that drops the record instead of resetting it
failure_counts_after_success_forgotten(fc, p) == Del(fc, p)

\* failure_counts after record_success(p)
failure_counts_after_success(fc, p) ==
    IF p \in DOMAIN fc THEN Put(fc, p, 0) ELSE fc

\* a record_success that closes the breaker
unhealthy_after_success_cleared(uu, p) == Del(uu, p)

\* unhealthy_until after record_success(p): the method never touches it
unhealthy_after_success(uu, p) == uu

\* -------------------------------------------------------------- is_healthy
\* a comparison that already lets the deadline instant through
expired_at_deadline(uu, p, t) == p \in DOMAIN uu /\ t >= uu[p]

\* a comparison of the deadline with itself instead of the time
expired_never(uu, p, t) == p \in DOMAIN uu /\ uu[p] > uu[p]

\* lines 72-73: entry present and time.time() > deadline
expired(uu, p, t) == p \in DOMAIN uu /\ t > uu[p]

\* an is_healthy without the return of line 78: after the del it falls
\* through to the return False of line 79
is_healthy_result_falls_through(uu, p, t) == p \notin DOMAIN uu

\* the value is_healthy(p) returns at time t
is_healthy_result(uu, p, t) ==
    IF p \in DOMAIN uu THEN expired(uu, p, t) ELSE TRUE

\* an is_healthy that forgets line 75
unhealthy_after_check_kept(uu, p, t) == uu

\* an is_healthy that removes the entry before the cooldown has elapsed
unhealthy_after_check_early(uu, p, t) ==
    IF p \in DOMAIN uu THEN Del(uu, p) ELSE uu

\* unhealthy_until after is_healthy(p) at time t
unhealthy_after_check(uu, p, t) ==
    IF expired(uu, p, t) THEN Del(uu, p) ELSE uu

\* -------------------------------------------------- get_cooldown_remaining
\* a test that also returns a remaining time of zero
cooldown_remaining_or_zero(uu, p, t) ==
    IF p \in DOMAIN uu /\ uu[p] - t >= 0 THEN uu[p] - t ELSE NoneValue

\* lines 92-96: the value get_cooldown_remaining(p) returns at time t; the
\* difference of two times of the window is a double, so line 93 is exact
cooldown_remaining(uu, p, t) ==
    IF p \in DOMAIN uu /\ uu[p] - t > 0 THEN uu[p] - t ELSE NoneValue

\* a get_cooldown_remaining that clears the entry it finds expired
unhealthy_after_remaining_cleared(uu, p, t) ==
    IF p \in DOMAIN uu /\ uu[p] - t <= 0 THEN Del(uu, p) ELSE uu

\* unhealthy_until after get_cooldown_remaining(p): the method only reads
unhealthy_after_remaining(uu, p, t) == uu

\* ------------------------------------------------------- history variables
Count(fc, p) == IF p \in DOMAIN fc THEN fc[p] ELSE 0
ClosedZero(fc, uu, p) == p \notin DOMAIN uu /\ Count(fc, p) = 0
ScenReset(fc, uu, p) == IF ClosedZero(fc, uu, p) THEN 0 ELSE Off

ObserveFailure(p) ==
    LET N == failure_threshold
        tripped == trips(failure_counts, p, N)
        closed == p \notin DOMAIN unhealthy_until
    IN
    IF p # watched THEN UNCHANGED history
    ELSE
    /\ initial_failures' =
          (IF initial_failures \in 0..(N - 1) THEN initial_failures + 1 ELSE Off)
    /\ scen' = (IF scen \in (0..(N - 2)) \cup (N..(2 * N - 2)) THEN scen + 1
                ELSE ScenReset(failure_counts', unhealthy_until', p))
    /\ last_trip' = (IF tripped THEN now ELSE last_trip)
    /\ closed_trip' = (IF tripped /\ closed THEN now ELSE closed_trip)
    /\ late_failure' =
          (IF tripped /\ closed THEN FALSE
           ELSE late_failure \/ (closed_trip # Off
                                 /\ now > closed_trip + cooldown_period))
    /\ since_recovery' =
          (IF since_recovery \in 0..(N - 2) THEN since_recovery + 1 ELSE Off)
    /\ tripped_real' = (IF tripped THEN real ELSE tripped_real)
    /\ quiet_since_trip' = tripped
    /\ quiet_recovery' =
          (IF since_recovery \in 0..(N - 2) THEN quiet_recovery ELSE FALSE)

ObserveSuccess(p) ==
    IF p # watched THEN UNCHANGED history
    ELSE
    /\ initial_failures' = (IF initial_failures = 0 THEN 0 ELSE Off)
    /\ scen' = (IF scen = failure_threshold - 1 /\ failure_threshold >= 2
                THEN failure_threshold
                ELSE ScenReset(failure_counts', unhealthy_until', p))
    /\ UNCHANGED <<last_trip, closed_trip, late_failure, since_recovery,
                   tripped_real, quiet_since_trip, quiet_recovery>>

ObserveCheck(p) ==
    IF p # watched THEN UNCHANGED history
    ELSE
    /\ scen' = (IF scen = Off
                THEN ScenReset(failure_counts', unhealthy_until', p) ELSE scen)
    /\ since_recovery' =
          (IF expired(unhealthy_until, p, now) THEN 0 ELSE since_recovery)
    /\ quiet_recovery' =
          (IF expired(unhealthy_until, p, now) THEN quiet_since_trip
           ELSE quiet_recovery)
    /\ UNCHANGED <<initial_failures, last_trip, closed_trip, late_failure,
                   tripped_real, quiet_since_trip>>

Call(op, p, h, r) == [op |-> op, peer |-> p, healthy |-> h, remaining |-> r]

\* -------------------------------------------------------------------- Init
\* __init__ (lines 21-24): both dicts empty, configuration from the arguments
Constructed ==
    /\ failure_counts = EmptyDict
    /\ unhealthy_until = EmptyDict
    /\ failure_threshold \in 1..MaxThreshold
    /\ cooldown_period \in 1..MaxCooldown
    /\ now = 0
    /\ real = 0
    /\ lastCall = Call("init", NoPeer, TRUE, NoneValue)
    /\ initial_failures = 0
    /\ scen = 0
    /\ last_trip = Off
    /\ closed_trip = Off
    /\ late_failure = FALSE
    /\ since_recovery = Off
    /\ tripped_real = Off
    /\ quiet_since_trip = TRUE
    /\ quiet_recovery = FALSE
    /\ pc = [t \in Threads |-> "idle"]
    /\ arg = [t \in Threads |-> NoPeer]
    /\ tmp = [t \in Threads |-> 0]
    /\ calls = [t \in Threads |-> 0]
    /\ issued = [p \in Peers |-> [failures |-> 0, others |-> 0, raced |-> Off]]

\* sequential use: the history of any one peer is recorded
Init == Constructed /\ watched \in Peers

\* ----------------------------------------------------------------- actions
\* a record_failure that doubles the instance's cooldown on every trip
record_failure_backoff(p) ==
    /\ failure_counts' =
          failure_counts_after_failure(failure_counts, p, failure_threshold)
    /\ unhealthy_until' =
          unhealthy_after_failure(failure_counts, unhealthy_until, p,
                                  failure_threshold, now, cooldown_period)
    /\ cooldown_period' =
          (IF trips(failure_counts, p, failure_threshold)
           THEN 2 * cooldown_period ELSE cooldown_period)
    /\ lastCall' = Call("record_failure", p, TRUE, NoneValue)
    /\ ObserveFailure(p)
    /\ UNCHANGED <<failure_threshold, watched, now, real, threads>>

record_failure(p) ==
    /\ failure_counts' =
          failure_counts_after_failure(failure_counts, p, failure_threshold)
    /\ unhealthy_until' =
          unhealthy_after_failure(failure_counts, unhealthy_until, p,
                                  failure_threshold, now, cooldown_period)
    /\ lastCall' = Call("record_failure", p, TRUE, NoneValue)
    /\ ObserveFailure(p)
    /\ UNCHANGED <<config, now, real, threads>>

record_success(p) ==
    /\ failure_counts' = failure_counts_after_success(failure_counts, p)
    /\ unhealthy_until' = unhealthy_after_success(unhealthy_until, p)
    /\ lastCall' = Call("record_success", p, TRUE, NoneValue)
    /\ ObserveSuccess(p)
    /\ UNCHANGED <<config, now, real, threads>>

is_healthy(p) ==
    /\ unhealthy_until' = unhealthy_after_check(unhealthy_until, p, now)
    /\ lastCall' = Call("is_healthy", p,
                        is_healthy_result(unhealthy_until, p, now), NoneValue)
    /\ UNCHANGED <<failure_counts, config, now, real, threads>>
    /\ ObserveCheck(p)

get_cooldown_remaining(p) ==
    /\ lastCall' = Call("get_cooldown_remaining", p, TRUE,
                        cooldown_remaining(unhealthy_until, p, now))
    /\ unhealthy_until' = unhealthy_after_remaining(unhealthy_until, p, now)
    /\ UNCHANGED <<failure_counts, config, now, real, history, threads>>

\* time passes between calls (non-decreasing clock)
Tick ==
    /\ now < MaxTime
    /\ real < MaxTime
    /\ now' = next_time(now)
    /\ real' = real + (next_time(now) - now)
    /\ lastCall' = Call("tick", NoPeer, TRUE, NoneValue)
    /\ UNCHANGED <<tracker, config, history, threads>>

Next ==
    \/ \E p \in Peers : record_failure(p)
    \/ \E p \in Peers : record_success(p)
    \/ \E p \in Peers : is_healthy(p)
    \/ \E p \in Peers : get_cooldown_remaining(p)
    \/ Tick

Spec == Init /\ [][Next]_vars

\* ------------------------------------------------ an adjustable wall clock
\* time.time() is the system's wall clock: it can be set forward or backward
\* while no real time passes
ClockJump ==
    /\ \E t \in 0..MaxTime : Representable(t) /\ t # now /\ now' = t
    /\ lastCall' = Call("clock_jump", NoPeer, TRUE, NoneValue)
    /\ UNCHANGED <<tracker, config, real, history, threads>>

NextClock ==
    \/ \E p \in Peers : record_failure(p)
    \/ \E p \in Peers : record_success(p)
    \/ \E p \in Peers : is_healthy(p)
    \/ \E p \in Peers : get_cooldown_remaining(p)
    \/ Tick
    \/ ClockJump

\* clock jumps are explored for the two smallest thresholds and the shortest
\* cooldown
InitClock == Init /\ failure_threshold <= 2 /\ cooldown_period = 1

SpecClock == InitClock /\ [][NextClock]_vars

\* ------------------------------------------------- threads, step by step
\* The methods take no lock: a thread switch can fall between any two of the
\* dict reads and writes below.
Goto(t, l) == pc' = [pc EXCEPT ![t] = l]
Return(t) ==
    /\ pc' = [pc EXCEPT ![t] = "idle"]
    /\ arg' = [arg EXCEPT ![t] = NoPeer]
    /\ tmp' = [tmp EXCEPT ![t] = 0]

\* a thread enters one of the four methods
Invoke(t, p, l) ==
    /\ pc[t] = "idle"
    /\ calls[t] < MaxCalls
    /\ pc' = [pc EXCEPT ![t] = l]
    /\ arg' = [arg EXCEPT ![t] = p]
    /\ calls' = [calls EXCEPT ![t] = @ + 1]
    /\ issued' = [issued EXCEPT ![p] =
          IF l = "rf_check" THEN [@ EXCEPT !.failures = @ + 1]
          ELSE IF l \in {"rs_check", "ih_check"} THEN [@ EXCEPT !.others = @ + 1]
          ELSE @]
    /\ UNCHANGED <<tracker, config, now, real, observed, tmp>>

\* line 36: if peer_id not in self.failure_counts
rf_check(t) ==
    /\ pc[t] = "rf_check"
    /\ Goto(t, IF arg[t] \notin DOMAIN failure_counts
               THEN "rf_insert" ELSE "rf_read")
    /\ UNCHANGED <<tracker, config, now, real, observed, arg, tmp, calls, issued>>

\* line 37: self.failure_counts[peer_id] = 0
rf_insert(t) ==
    /\ pc[t] = "rf_insert"
    /\ failure_counts' = Put(failure_counts, arg[t], 0)
    /\ Goto(t, "rf_read")
    /\ UNCHANGED <<unhealthy_until, config, now, real, observed, arg, tmp, calls,
                   issued>>

\* line 39, the read half of += 1
rf_read(t) ==
    /\ pc[t] = "rf_read"
    /\ tmp' = [tmp EXCEPT ![t] = failure_counts[arg[t]]]
    /\ Goto(t, "rf_write")
    /\ UNCHANGED <<tracker, config, now, real, observed, arg, calls, issued>>

\* line 39, the write half of += 1
rf_write(t) ==
    /\ pc[t] = "rf_write"
    /\ failure_counts' = Put(failure_counts, arg[t], tmp[t] + 1)
    /\ tmp' = [tmp EXCEPT ![t] = 0]
    /\ Goto(t, "rf_test")
    /\ UNCHANGED <<unhealthy_until, config, now, real, observed, arg, calls, issued>>

\* line 41: if self.failure_counts[peer_id] >= self.failure_threshold
rf_test(t) ==
    /\ pc[t] = "rf_test"
    /\ IF failure_counts[arg[t]] >= failure_threshold
       THEN Goto(t, "rf_time") /\ UNCHANGED <<arg, tmp>>
       ELSE Return(t)
    /\ UNCHANGED <<tracker, config, now, real, observed, calls, issued>>

\* line 44, right-hand side: time.time() + self.cooldown_period
rf_time(t) ==
    /\ pc[t] = "rf_time"
    /\ tmp' = [tmp EXCEPT ![t] = float_add(now, cooldown_period)]
    /\ Goto(t, "rf_deadline")
    /\ UNCHANGED <<tracker, config, now, real, observed, arg, calls, issued>>

\* line 44, the store: self.unhealthy_until[peer_id] = ...
rf_deadline(t) ==
    /\ pc[t] = "rf_deadline"
    /\ unhealthy_until' = Put(unhealthy_until, arg[t], tmp[t])
    /\ issued' = [issued EXCEPT ![arg[t]].raced =
          IF \E u \in Threads \ {t} : pc[u] = "ih_del" /\ arg[u] = arg[t]
          THEN tmp[t] ELSE @]
    /\ tmp' = [tmp EXCEPT ![t] = 0]
    /\ Goto(t, "rf_reset")
    /\ UNCHANGED <<failure_counts, config, now, real, observed, arg, calls>>

\* line 45: self.failure_counts[peer_id] = 0
rf_reset(t) ==
    /\ pc[t] = "rf_reset"
    /\ failure_counts' = Put(failure_counts, arg[t], 0)
    /\ Return(t)
    /\ UNCHANGED <<unhealthy_until, config, now, real, observed, calls, issued>>

\* line 56: if peer_id in self.failure_counts
rs_check(t) ==
    /\ pc[t] = "rs_check"
    /\ IF arg[t] \in DOMAIN failure_counts
       THEN Goto(t, "rs_reset") /\ UNCHANGED <<arg, tmp>>
       ELSE Return(t)
    /\ UNCHANGED <<tracker, config, now, real, observed, calls, issued>>

\* line 57: self.failure_counts[peer_id] = 0
rs_reset(t) ==
    /\ pc[t] = "rs_reset"
    /\ failure_counts' = Put(failure_counts, arg[t], 0)
    /\ Return(t)
    /\ UNCHANGED <<unhealthy_until, config, now, real, observed, calls, issued>>

\* an is_healthy without the membership test of line 72
ih_check_unguarded(t) ==
    /\ pc[t] = "ih_check"
    /\ Goto(t, "ih_time")
    /\ UNCHANGED <<tracker, config, now, real, observed, arg, tmp, calls, issued>>

\* line 72: if peer_id in self.unhealthy_until
ih_check(t) ==
    /\ pc[t] = "ih_check"
    /\ IF arg[t] \in DOMAIN unhealthy_until
       THEN Goto(t, "ih_time") /\ UNCHANGED <<arg, tmp>>
       ELSE Return(t)
    /\ UNCHANGED <<tracker, config, now, real, observed, calls, issued>>

\* line 73, left operand: time.time()
ih_time(t) ==
    /\ pc[t] = "ih_time"
    /\ tmp' = [tmp EXCEPT ![t] = now]
    /\ Goto(t, "ih_read")
    /\ UNCHANGED <<tracker, config, now, real, observed, arg, calls, issued>>

\* line 73, right operand self.unhealthy_until[peer_id] and the comparison;
\* the subscript raises KeyError when the entry is gone
ih_read(t) ==
    /\ pc[t] = "ih_read"
    /\ IF arg[t] \notin DOMAIN unhealthy_until
       THEN Goto(t, "KeyError") /\ UNCHANGED <<arg, tmp>>
       ELSE IF tmp[t] > unhealthy_until[arg[t]]
            THEN Goto(t, "ih_del") /\ UNCHANGED arg
                 /\ tmp' = [tmp EXCEPT ![t] = 0]
            ELSE Return(t)
    /\ UNCHANGED <<tracker, config, now, real, observed, calls, issued>>

\* line 75: del self.unhealthy_until[peer_id]; KeyError when the entry is gone
ih_del(t) ==
    /\ pc[t] = "ih_del"
    /\ IF arg[t] \notin DOMAIN unhealthy_until
       THEN /\ Goto(t, "KeyError")
            /\ UNCHANGED <<unhealthy_until, arg, tmp>>
       ELSE /\ unhealthy_until' = Del(unhealthy_until, arg[t])
            /\ Return(t)
    /\ UNCHANGED <<failure_counts, config, now, real, observed, calls, issued>>

\* line 92: if peer_id in self.unhealthy_until
gc_check(t) ==
    /\ pc[t] = "gc_check"
    /\ IF arg[t] \in DOMAIN unhealthy_until
       THEN Goto(t, "gc_read") /\ UNCHANGED <<arg, tmp>>
       ELSE Return(t)
    /\ UNCHANGED <<tracker, config, now, real, observed, calls, issued>>

\* line 93, left operand self.unhealthy_until[peer_id]; KeyError when gone
gc_read(t) ==
    /\ pc[t] = "gc_read"
    /\ IF arg[t] \notin DOMAIN unhealthy_until
       THEN Goto(t, "KeyError") /\ UNCHANGED tmp
       ELSE Goto(t, "gc_time")
            /\ tmp' = [tmp EXCEPT ![t] = unhealthy_until[arg[t]]]
    /\ UNCHANGED <<tracker, config, now, real, observed, arg, calls, issued>>

\* lines 93-96: remaining = ... - time.time(); return it or None
gc_time(t) ==
    /\ pc[t] = "gc_time"
    /\ Return(t)
    /\ UNCHANGED <<tracker, config, now, real, observed, calls, issued>>

\* time passes while the threads run
ThreadTick ==
    /\ now < MaxTime
    /\ now' = next_time(now)
    /\ real' = real + (next_time(now) - now)
    /\ UNCHANGED <<tracker, config, observed, threads>>

ThreadNext ==
    \/ \E t \in Threads, p \in Peers : Invoke(t, p, "rf_check")
    \/ \E t \in Threads, p \in Peers : Invoke(t, p, "rs_check")
    \/ \E t \in Threads, p \in Peers : Invoke(t, p, "ih_check")
    \/ \E t \in Threads, p \in Peers : Invoke(t, p, "gc_check")
    \/ \E t \in Threads : rf_check(t)
    \/ \E t \in Threads : rf_insert(t)
    \/ \E t \in Threads : rf_read(t)
    \/ \E t \in Threads : rf_write(t)
    \/ \E t \in Threads : rf_test(t)
    \/ \E t \in Threads : rf_time(t)
    \/ \E t \in Threads : rf_deadline(t)
    \/ \E t \in Threads : rf_reset(t)
    \/ \E t \in Threads : rs_check(t)
    \/ \E t \in Threads : rs_reset(t)
    \/ \E t \in Threads : ih_check(t)
    \/ \E t \in Threads : ih_time(t)
    \/ \E t \in Threads : ih_read(t)
    \/ \E t \in Threads : ih_del(t)
    \/ \E t \in Threads : gc_check(t)
    \/ \E t \in Threads : gc_read(t)
    \/ \E t \in Threads : gc_time(t)
    \/ ThreadTick

\* the threads' runs record no history
InitThreads == Constructed /\ watched = NoPeer

SpecThreads == InitThreads /\ [][ThreadNext]_vars

\* ------------------------------------------------------------------ claims
IsCall(op, p) == lastCall.op = op /\ lastCall.peer = p

\* C1: from a never-seen peer, after k < N consecutive record_failure calls
\* (no record_success in between) is_healthy returns true; right after the
\* N-th call, with no time elapsed, is_healthy returns false.
C1_TripsExactlyAtThreshold ==
    /\ initial_failures \in 0..(failure_threshold - 1) =>
          /\ is_healthy_result(unhealthy_until, watched, now)
          /\ IsCall("is_healthy", watched) => lastCall.healthy
    /\ (initial_failures = failure_threshold
          /\ IsCall("record_failure", watched)) =>
          ~is_healthy_result(unhealthy_until, watched, now)

C1_Witness ==
    /\ failure_threshold = 3
    /\ initial_failures = 3
    /\ IsCall("record_failure", watched)
    /\ ~is_healthy_result(unhealthy_until, watched, now)

\* C2: for N >= 2, on a peer that is CLOSED with count 0, the sequence of
\* N-1 failures, one success, N-1 failures never creates an unhealthy_until
\* entry and is_healthy returns true after every step of it.
C2_SuccessResetsRun ==
    (failure_threshold >= 2 /\ scen # Off) =>
        /\ watched \notin DOMAIN unhealthy_until
        /\ is_healthy_result(unhealthy_until, watched, now)
        /\ IsCall("is_healthy", watched) => lastCall.healthy

C2_Witness ==
    /\ failure_threshold = 3
    /\ scen = 2 * failure_threshold - 1
    /\ IsCall("record_failure", watched)
    /\ watched \notin DOMAIN unhealthy_until

\* C3: once p is tripped at time t, every is_healthy(p) made at a time not
\* later than t + cooldown_period returns false, whatever else was called.
C3_OpenUntilCooldownElapsed ==
    (last_trip # Off /\ now <= last_trip + cooldown_period) =>
        /\ ~is_healthy_result(unhealthy_until, watched, now)
        /\ IsCall("is_healthy", watched) => ~lastCall.healthy

C3_Witness ==
    /\ last_trip # Off
    /\ now = last_trip + cooldown_period
    /\ IsCall("is_healthy", watched)
    /\ ~lastCall.healthy

\* C4: if p is tripped from CLOSED at time t, every is_healthy(p) made at a
\* time strictly later than t + cooldown_period returns true, regardless of
\* the calls made during [t, t + cooldown_period].
C4_FixedCooldown ==
    (/\ closed_trip # Off
     /\ ~late_failure
     /\ now > closed_trip + cooldown_period
     /\ IsCall("is_healthy", watched)) => lastCall.healthy

\* C5: after a recovery (is_healthy returned true on an expired entry), fewer
\* than failure_threshold record_failure calls never create a new
\* unhealthy_until entry, whatever happened before the recovery.
C5_FreshRunAfterRecovery ==
    since_recovery # Off =>
        /\ watched \notin DOMAIN unhealthy_until
        /\ is_healthy_result(unhealthy_until, watched, now)

\* C8: record_success leaves the whole unhealthy_until mapping unchanged, so
\* a peer that is_healthy would report unhealthy before the call is still
\* reported unhealthy right after it.
C8_SuccessNeverHeals ==
    [][lastCall'.op = "record_success" =>
          /\ unhealthy_until' = unhealthy_until
          /\ \A p \in Peers :
                ~is_healthy_result(unhealthy_until, p, now) =>
                    ~is_healthy_result(unhealthy_until', p, now')]_vars

C8_Witness ==
    \E p \in Peers :
        /\ IsCall("record_success", p)
        /\ p \in DOMAIN unhealthy_until
        /\ now <= unhealthy_until[p]

\* C9: is_healthy(p) at time now returns true with the state unchanged when p
\* has no entry, returns true and removes the entry when now > deadline, and
\* returns false with the state unchanged when now <= deadline; after a true
\* result p has no entry, and a future deadline is never reported healthy.
C9_IsHealthyCases ==
    /\ [][lastCall'.op = "is_healthy" =>
            LET p == lastCall'.peer
                h == lastCall'.healthy
            IN  /\ failure_counts' = failure_counts
                /\ p \notin DOMAIN unhealthy_until =>
                      h /\ unhealthy_until' = unhealthy_until
                /\ (p \in DOMAIN unhealthy_until /\ now > unhealthy_until[p]) =>
                      h /\ unhealthy_until' = Del(unhealthy_until, p)
                /\ (p \in DOMAIN unhealthy_until /\ now <= unhealthy_until[p]) =>
                      ~h /\ unhealthy_until' = unhealthy_until]_vars
    /\ [](\A p \in Peers :
            (IsCall("is_healthy", p) /\ lastCall.healthy) =>
                p \notin DOMAIN unhealthy_until)
    /\ [](\A p \in Peers :
            (IsCall("is_healthy", p) /\ p \in DOMAIN unhealthy_until
                /\ unhealthy_until[p] >= now) => ~lastCall.healthy)

C9_Witness ==
    /\ IsCall("is_healthy", watched)
    /\ lastCall.healthy
    /\ since_recovery = 0
    /\ watched \notin DOMAIN unhealthy_until

\* C10: record_failure(p) at time now with previous count c (0 without a
\* record): when c + 1 reaches failure_threshold it sets unhealthy_until[p]
\* to now + cooldown_period (the sum as the program computes it, a double)
\* and the count to 0, otherwise it sets the count
\* to c + 1 and leaves unhealthy_until unchanged; the count is 0 right after
\* every trip and right after every record_success.
C10_RecordFailureCases ==
    /\ [][lastCall'.op = "record_failure" =>
            LET p == lastCall'.peer
                c == Count(failure_counts, p)
            IN  /\ \A q \in (DOMAIN failure_counts) \ {p} :
                      q \in DOMAIN failure_counts'
                      /\ failure_counts'[q] = failure_counts[q]
                /\ DOMAIN failure_counts' = (DOMAIN failure_counts) \cup {p}
                /\ IF c + 1 = failure_threshold
                   THEN /\ unhealthy_until' =
                              Put(unhealthy_until, p,
                                  float_add(now, cooldown_period))
                        /\ failure_counts'[p] = 0
                   ELSE /\ failure_counts'[p] = c + 1
                        /\ unhealthy_until' = unhealthy_until]_vars
    /\ [][lastCall'.op = "record_success" =>
            Count(failure_counts', lastCall'.peer) = 0]_vars

C10_Witness ==
    /\ failure_threshold = 2
    /\ IsCall("record_failure", watched)
    /\ last_trip = now
    /\ watched \in DOMAIN unhealthy_until
    /\ unhealthy_until[watched] = float_add(now, cooldown_period)
    /\ failure_counts[watched] = 0

\* ------------------------------------------ one call at a time (sequential)
\* a method is entered only when no other call is in progress; which thread
\* makes the call is immaterial then, so the threads take their calls in turn
serial_invoke(t, p, l) ==
    /\ \A u \in Threads : pc[u] = "idle"
    /\ \A u \in Threads : u < t => calls[u] = MaxCalls
    /\ calls[t] < MaxCalls
    /\ pc' = [pc EXCEPT ![t] = l]
    /\ arg' = [arg EXCEPT ![t] = p]
    /\ calls' = [calls EXCEPT ![t] = @ + 1]
    /\ UNCHANGED <<tracker, config, now, real, observed, tmp, issued>>

NextSerial ==
    \/ \E t \in Threads, p \in Peers : serial_invoke(t, p, "rf_check")
    \/ \E t \in Threads, p \in Peers : serial_invoke(t, p, "rs_check")
    \/ \E t \in Threads, p \in Peers : serial_invoke(t, p, "ih_check")
    \/ \E t \in Threads, p \in Peers : serial_invoke(t, p, "gc_check")
    \/ \E t \in Threads : rf_check(t)
    \/ \E t \in Threads : rf_insert(t)
    \/ \E t \in Threads : rf_read(t)
    \/ \E t \in Threads : rf_write(t)
    \/ \E t \in Threads : rf_test(t)
    \/ \E t \in Threads : rf_time(t)
    \/ \E t \in Threads : rf_deadline(t)
    \/ \E t \in Threads : rf_reset(t)
    \/ \E t \in Threads : rs_check(t)
    \/ \E t \in Threads : rs_reset(t)
    \/ \E t \in Threads : ih_check(t)
    \/ \E t \in Threads : ih_time(t)
    \/ \E t \in Threads : ih_read(t)
    \/ \E t \in Threads : ih_del(t)
    \/ \E t \in Threads : gc_check(t)
    \/ \E t \in Threads : gc_read(t)
    \/ \E t \in Threads : gc_time(t)
    \/ ThreadTick

SpecSerial == InitThreads /\ [][NextSerial]_vars

\* ------------------------------------------------- claims about threads
\* C6: no update to a peer's counter is lost: when the threads have finished
\* K record_failure(p) calls and nothing else that writes p's state, the
\* count and the entry are those of a sequential execution of the K calls;
\* in particular K >= failure_threshold failures always trip p.
C6_NoLostUpdate ==
    \A p \in Peers :
        LET K == issued[p].failures IN
        (/\ \A t \in Threads : pc[t] = "idle"
         /\ issued[p].others = 0
         /\ K > 0) =>
            /\ p \in DOMAIN failure_counts
            /\ failure_counts[p] = K % failure_threshold
            /\ K >= failure_threshold => p \in DOMAIN unhealthy_until

\* C7: no interleaving of is_healthy and get_cooldown_remaining with another
\* thread's is_healthy reaches a read or delete of an unhealthy_until entry
\* that is no longer present (KeyError).
C7_NoKeyError == \A t \in Threads : pc[t] # "KeyError"

\* C21: a trip is never lost to a concurrent expiry check: when one thread's
\* is_healthy(p) has seen p's old deadline expired and another thread's
\* record_failure(p) stores a new deadline before the first thread's del, then
\* once both calls have finished p holds the new deadline and is_healthy(p)
\* returns false until that deadline has elapsed.
C21_TripSurvivesExpiryCheck ==
    \A p \in Peers :
        LET d == issued[p].raced IN
        (/\ d # Off
         /\ \A t \in Threads : pc[t] = "idle"
         /\ now <= d) =>
            /\ p \in DOMAIN unhealthy_until
            /\ unhealthy_until[p] >= d
            /\ ~is_healthy_result(unhealthy_until, p, now)

\* C11: get_cooldown_remaining(p) at time now returns unhealthy_until[p] - now
\* when p has an entry and the difference is strictly positive, and None in
\* every other case (never seen, no entry, deadline reached or passed but the
\* entry not yet cleared).
C11_RemainingCases ==
    [][lastCall'.op = "get_cooldown_remaining" =>
          LET p == lastCall'.peer
              r == lastCall'.remaining
          IN  /\ p \notin DOMAIN unhealthy_until => r = NoneValue
              /\ (p \in DOMAIN unhealthy_until /\ unhealthy_until[p] <= now) =>
                    r = NoneValue
              /\ (p \in DOMAIN unhealthy_until /\ unhealthy_until[p] > now) =>
                    r = unhealthy_until[p] - now]_vars

C11_Witness ==
    /\ IsCall("get_cooldown_remaining", watched)
    /\ watched \in DOMAIN unhealthy_until
    /\ now = unhealthy_until[watched]
    /\ lastCall.remaining = NoneValue

\* C12: get_cooldown_remaining is a pure read: it leaves failure_counts and
\* unhealthy_until unchanged and does not remove an expired entry.
C12_RemainingIsPureRead ==
    [][lastCall'.op = "get_cooldown_remaining" =>
          /\ failure_counts' = failure_counts
          /\ unhealthy_until' = unhealthy_until]_vars

C12_Witness ==
    /\ IsCall("get_cooldown_remaining", watched)
    /\ watched \in DOMAIN unhealthy_until
    /\ now > unhealthy_until[watched]

\* C13: an operation invoked on p leaves failure_counts[q] and
\* unhealthy_until[q] unchanged for every other peer q (the empty string
\* included).
SameEntry(d, e, q) ==
    /\ q \in DOMAIN d <=> q \in DOMAIN e
    /\ q \in DOMAIN d => d[q] = e[q]

C13_PeersDoNotInterfere ==
    [][\A q \in Peers :
          q # lastCall'.peer =>
              /\ SameEntry(failure_counts, failure_counts', q)
              /\ SameEntry(unhealthy_until, unhealthy_until', q)]_vars

C13_Witness ==
    \E q \in Peers :
        /\ q # watched
        /\ IsCall("record_failure", watched)
        /\ last_trip = now
        /\ watched \in DOMAIN unhealthy_until
        /\ q \in DOMAIN failure_counts
        /\ failure_counts[q] = 1
        /\ q \notin DOMAIN unhealthy_until

\* C14: an unhealthy_until entry disappears only in an is_healthy call on
\* that peer made strictly after the entry's deadline; no other method and no
\* passage of time removes it.
C14_OnlyIsHealthyCloses ==
    [][\A p \in Peers :
          (p \in DOMAIN unhealthy_until /\ p \notin DOMAIN unhealthy_until') =>
              /\ lastCall'.op = "is_healthy"
              /\ lastCall'.peer = p
              /\ now' = now
              /\ now > unhealthy_until[p]]_vars

C14_Witness ==
    /\ failure_threshold = 1
    /\ IsCall("is_healthy", watched)
    /\ last_trip # Off
    /\ now > last_trip + cooldown_period
    /\ watched \notin DOMAIN unhealthy_until
    /\ watched \in DOMAIN failure_counts

\* C15: on a never-seen peer record_success, is_healthy and
\* get_cooldown_remaining leave the tracker state unchanged; the first
\* record_failure creates the record with count 1, or trips at once when
\* failure_threshold is 1.
C15_LazyCreation ==
    [][LET p == lastCall'.peer
           op == lastCall'.op
       IN  (p \in Peers /\ p \notin DOMAIN failure_counts) =>
              /\ op \in {"record_success", "is_healthy",
                         "get_cooldown_remaining"} =>
                    /\ failure_counts' = failure_counts
                    /\ unhealthy_until' = unhealthy_until
              /\ op = "record_failure" =>
                    IF failure_threshold = 1
                    THEN /\ failure_counts' = Put(failure_counts, p, 0)
                         /\ unhealthy_until' =
                               Put(unhealthy_until, p,
                                  float_add(now, cooldown_period))
                    ELSE /\ failure_counts' = Put(failure_counts, p, 1)
                         /\ unhealthy_until' = unhealthy_until]_vars

C15_Witness ==
    /\ failure_threshold >= 2
    /\ IsCall("record_failure", watched)
    /\ initial_failures = 1
    /\ failure_counts[watched] = 1
    /\ watched \notin DOMAIN unhealthy_until

\* C16: with a non-decreasing clock every value other than None returned by
\* get_cooldown_remaining lies in (0, cooldown_period], and every stored
\* deadline is at most now + cooldown_period.
C16_RemainingBounded ==
    /\ \A p \in DOMAIN unhealthy_until :
          unhealthy_until[p] <= now + cooldown_period
    /\ \A p \in Peers :
          LET r == cooldown_remaining(unhealthy_until, p, now)
          IN  r # NoneValue => (0 < r /\ r <= cooldown_period)
    /\ (lastCall.op = "get_cooldown_remaining"
          /\ lastCall.remaining # NoneValue) =>
          (0 < lastCall.remaining /\ lastCall.remaining <= cooldown_period)

\* C17: when the time source may jump forward or backward, a peer tripped at
\* real time t is reported unhealthy for the whole real interval of length
\* cooldown_period after t, and healthy once more than cooldown_period of
\* real time has elapsed with no further failure.
C17_ClockAdjustments ==
    /\ (tripped_real # Off /\ real <= tripped_real + cooldown_period
          /\ IsCall("is_healthy", watched)) => ~lastCall.healthy
    /\ (tripped_real # Off /\ quiet_since_trip
          /\ real > tripped_real + cooldown_period
          /\ IsCall("is_healthy", watched)) => lastCall.healthy

\* C18: if p is tripped, no further record_failure(p) occurs, the clock keeps
\* advancing and is_healthy(p) keeps being called, then eventually
\* is_healthy(p) returns true, and from then on it returns true until
\* failure_threshold new failures have been recorded.  The premises about the
\* callers are premises of the formula: weak fairness of the clock and of
\* is_healthy(p), a deadline the clock reaches before it stops at MaxTime,
\* and the outcome "a further record_failure(p) occurred".
C18_EventuallyRetried ==
    /\ (WF_vars(Tick) /\ WF_vars(is_healthy(watched))) =>
          ((watched \in DOMAIN unhealthy_until
               /\ unhealthy_until[watched] < MaxTime)
             ~> (\/ IsCall("is_healthy", watched) /\ lastCall.healthy
                 \/ IsCall("record_failure", watched)))
    /\ []((since_recovery # Off /\ quiet_recovery) =>
            /\ watched \notin DOMAIN unhealthy_until
            /\ IsCall("is_healthy", watched) => lastCall.healthy)

C18_Witness ==
    /\ failure_threshold >= 2
    /\ since_recovery = failure_threshold - 1
    /\ quiet_recovery
    /\ IsCall("is_healthy", watched)
    /\ lastCall.healthy

\* C19: in sequential (non-interleaved) use no call reaches an error: no
\* subscript or del meets a missing key, is_healthy returns a boolean and
\* get_cooldown_remaining returns a positive duration or None, for every
\* peer_id in every reachable state.
C19_SequentialTotal ==
    /\ \A t \in Threads : pc[t] \in
          {"idle", "rf_check", "rf_insert", "rf_read", "rf_write", "rf_test",
           "rf_time", "rf_deadline", "rf_reset", "rs_check", "rs_reset",
           "ih_check", "ih_time", "ih_read", "ih_del",
           "gc_check", "gc_read", "gc_time"}
    /\ \A t \in Threads :
          pc[t] \in {"rf_read", "rf_test", "rf_reset", "rs_reset"} =>
              arg[t] \in DOMAIN failure_counts
    /\ \A t \in Threads :
          pc[t] \in {"ih_read", "ih_del", "gc_read"} =>
              arg[t] \in DOMAIN unhealthy_until
    /\ \A p \in Peers :
          /\ is_healthy_result(unhealthy_until, p, now) \in BOOLEAN
          /\ LET r == cooldown_remaining(unhealthy_until, p, now)
             IN  r = NoneValue \/ r > 0

C19_Witness ==
    \E t \in Threads :
        /\ pc[t] = "ih_del"
        /\ arg[t] \in DOMAIN unhealthy_until
        /\ arg[t] \in DOMAIN failure_counts
        /\ now > unhealthy_until[arg[t]]

\* C20: failure_threshold and cooldown_period are fixed at construction: no
\* operation changes either value, and the same two values govern every
\* peer (each stored deadline is the sum the program computes from its
\* peer's trip time and the one cooldown_period, each count at rest is below
\* the one failure_threshold).
C20_ConfigurationFixed ==
    /\ [][/\ failure_threshold' = failure_threshold
          /\ cooldown_period' = cooldown_period]_vars
    /\ [](watched \in DOMAIN unhealthy_until =>
            unhealthy_until[watched] = float_add(last_trip, cooldown_period))
    /\ [](\A p \in DOMAIN failure_counts :
            failure_counts[p] < failure_threshold)

C20_Witness ==
    \E q \in Peers :
        /\ q # watched
        /\ watched \in DOMAIN unhealthy_until
        /\ q \in DOMAIN unhealthy_until
        /\ unhealthy_until[q] # unhealthy_until[watched]
        /\ unhealthy_until[watched] = float_add(last_trip, cooldown_period)

\* C22: is_healthy and get_cooldown_remaining agree at every state and time:
\* called at the same time on the same state, get_cooldown_remaining(p)
\* returns None exactly when is_healthy(p) returns true, the instant where
\* the time equals the stored deadline included.
C22_RemainingAgreesWithHealth ==
    \A p \in Peers :
        (cooldown_remaining(unhealthy_until, p, now) = NoneValue)
            <=> is_healthy_result(unhealthy_until, p, now)

\* C23: in every state between sequential operations every recorded peer p
\* has 0 <= failure_counts[p] <= failure_threshold - 1: the count never
\* rests at the threshold, whether p is CLOSED or OPEN.
C23_CounterBelowThreshold ==
    \A p \in DOMAIN failure_counts :
        /\ 0 <= failure_counts[p]
        /\ failure_counts[p] <= failure_threshold - 1

C23_Witness ==
    /\ failure_threshold = 3
    /\ IsCall("record_failure", watched)
    /\ watched \in DOMAIN unhealthy_until
    /\ now <= unhealthy_until[watched]
    /\ failure_counts[watched] = failure_threshold - 1

\* C24: every peer with an unhealthy_until entry also has a failure_counts
\* entry, and no operation removes a failure_counts entry: the set of
\* recorded peers only grows.
C24_RecordsOnlyGrow ==
    /\ [](DOMAIN unhealthy_until \subseteq DOMAIN failure_counts)
    /\ [][DOMAIN failure_counts \subseteq DOMAIN failure_counts']_vars

C24_Witness ==
    \E q \in Peers :
        /\ q # watched
        /\ IsCall("record_success", watched)
        /\ watched \in DOMAIN unhealthy_until
        /\ watched \in DOMAIN failure_counts
        /\ q \in DOMAIN failure_counts
        /\ q \notin DOMAIN unhealthy_until
        /\ last_trip # Off

\* C25: is_healthy is idempotent at a fixed time: a second is_healthy(p) made
\* right after the first, with no clock advance and no other operation in
\* between, returns the same result and leaves the state unchanged.
C25_IsHealthyIdempotent ==
    /\ [](\A p \in Peers :
            LET after == unhealthy_after_check(unhealthy_until, p, now)
            IN  /\ is_healthy_result(after, p, now)
                      = is_healthy_result(unhealthy_until, p, now)
                /\ unhealthy_after_check(after, p, now) = after)
    /\ [][(/\ lastCall.op = "is_healthy"
           /\ lastCall'.op = "is_healthy"
           /\ lastCall'.peer = lastCall.peer
           /\ now' = now) =>
              /\ lastCall'.healthy = lastCall.healthy
              /\ failure_counts' = failure_counts
              /\ unhealthy_until' = unhealthy_until]_vars

C25_Witness ==
    /\ cooldown_period = 2
    /\ IsCall("is_healthy", watched)
    /\ lastCall.healthy
    /\ since_recovery = 0
    /\ watched \in DOMAIN failure_counts
    /\ unhealthy_after_check(unhealthy_until, watched, now) = unhealthy_until

====
